---- MODULE Spec2Model ----
(***************************************************************************)
(* Model of main.py: the walk over the root listing (main), the per        *)
(* directory builder (process_directory), the two descriptor parsers       *)
(* (parse_0_txt, parse_8_txt) and the exporter (write_csv).                *)
(*                                                                         *)
(* A filesystem entry is a record; a descriptor file is missing, a         *)
(* directory, or a regular file whose content is malformed or a document.  *)
(* A document is a function from child element names to attribute maps;    *)
(* an attribute map is a function from attribute names to strings.         *)
(***************************************************************************)
EXTENDS Integers, Sequences, FiniteSets, TLC

VARIABLES
    root,         \* os.listdir(root_dir) with what each entry holds, in enumeration order
    idx,          \* position of the for loop of main in the listing
    pc,           \* position of the program
    record_0,     \* local of process_directory: result of parse_0_txt
    record_8,     \* local of process_directory: result of parse_8_txt
    data_list,    \* main's list of records
    csv,          \* rows of output.csv
    outcome,      \* what write_csv printed: "none", "written", "ioerror"
    origin,       \* history: the listing index each element of data_list came from
    opened,       \* history: <<index, file name>> of every open() attempted
    transformed,  \* history: listing indices for which the transformer was invoked
    raised,       \* history: listing indices for which the transformer raised
    defaulted     \* history: write_csv took the default of data.get(key, '')

vars == <<root, idx, pc, record_0, record_8, data_list, csv, outcome,
          origin, opened, transformed, raised, defaulted>>

\* Largest number of entries of a listing drawn from SmallEntries.
MaxEntries == 2

\* Python's None.
None == [None |-> TRUE]

----------------------------------------------------------------------------
\* Inputs

\* Attribute maps over a set of attribute names.
AttrMaps(names, vals) == UNION {[S -> vals] : S \in SUBSET names}

\* Documents: partial functions from child element names to attribute maps.
Docs(children, attrs, vals) == UNION {[S -> AttrMaps(attrs, vals)] : S \in SUBSET children}

CoordStrings == {"", "abc", "100", "1e2", "200"}
HtmlStrings == {"Foo", "Bar"}

Docs0 == Docs({"projection"}, {"x", "y"}, CoordStrings)
Docs8 == Docs({"name", "translation", "explanation", "description"}, {"htmlText"}, HtmlStrings)

FileStates(docs) ==
    {[kind |-> "missing"], [kind |-> "dir"], [kind |-> "file", wellformed |-> FALSE]}
        \cup {[kind |-> "file", wellformed |-> TRUE, doc |-> d] : d \in docs}

OtherEntries == {[kind |-> "file"], [kind |-> "dir", menuTabs |-> FALSE]}

DirEntries(docs0, docs8) ==
    {[kind |-> "dir", menuTabs |-> TRUE, f0 |-> a, f8 |-> b] :
        a \in FileStates(docs0), b \in FileStates(docs8)}

FullEntries == OtherEntries \cup DirEntries(Docs0, Docs8)

SmallDocs0 == {<<>>, [n \in {"projection"} |-> [a \in {"x", "y"} |-> IF a = "x" THEN "1e2" ELSE "200"]]}
SmallDocs8 ==
    {[n \in {"name", "translation", "explanation"} |->
        [a \in {"htmlText"} |-> IF n = "translation" THEN "Bar" ELSE "Foo"]]}

SmallEntries == OtherEntries \cup DirEntries(SmallDocs0, SmallDocs8)

\* Listings: one entry of any shape, or up to MaxEntries entries of the small shapes.
Roots == {<<e>> : e \in FullEntries} \cup UNION {[1..n -> SmallEntries] : n \in 0..MaxEntries}

----------------------------------------------------------------------------
\* Library behaviour the program relies on

\* os.path.exists: true of anything at the path, a directory included.
exists(f) == f.kind # "missing"

\* open(path, 'r'): succeeds on a regular file, raises IsADirectoryError on a directory.
CanOpen(f) == f.kind = "file"

\* elem.get(attr, default)
Get(elem, attr, default) == IF attr \in DOMAIN elem THEN elem[attr] ELSE default

\* float(s): the strings float accepts, with their values; ValueError on the others.
FloatValue == [s \in {"100", "1e2", "200"} |-> IF s = "200" THEN 200 ELSE 100]

IsFloat(s) == s \in DOMAIN FloatValue

\* transformer.transform(easting, northing) with always_xy: (longitude, latitude),
\* an injective function of the point, left uninterpreted.
Transform(easting, northing) ==
    LET p == "(" \o ToString(easting) \o "," \o ToString(northing) \o ")"
    IN  <<"lon" \o p, "lat" \o p>>

----------------------------------------------------------------------------
\* parse_0_txt

\* Mutant of Convert: the transformer is built before the strings are converted.
Convert_TransformerFirst(proj_x, proj_y, ok) ==
    IF ~IsFloat(proj_x) \/ ~IsFloat(proj_y)
    THEN [latitude |-> "", longitude |-> "", invoked |-> TRUE, raised |-> FALSE]
    ELSE IF ~ok
    THEN [latitude |-> "", longitude |-> "", invoked |-> TRUE, raised |-> TRUE]
    ELSE LET p == Transform(FloatValue[proj_x], FloatValue[proj_y])
         IN  [latitude |-> p[2], longitude |-> p[1], invoked |-> TRUE, raised |-> FALSE]

\* The try block of parse_0_txt: ok is whether from_crs and transform return.
Convert(proj_x, proj_y, ok) ==
    IF ~IsFloat(proj_x) \/ ~IsFloat(proj_y)
    THEN [latitude |-> "", longitude |-> "", invoked |-> FALSE, raised |-> FALSE]
    ELSE IF ~ok
    THEN [latitude |-> "", longitude |-> "", invoked |-> TRUE, raised |-> TRUE]
    ELSE LET p == Transform(FloatValue[proj_x], FloatValue[proj_y])
         IN  [latitude |-> p[2], longitude |-> p[1], invoked |-> TRUE, raised |-> FALSE]

\* Mutant of NoProjection: the else branch sets the projection keys only.
NoProjection_TwoKeys == [projection_x |-> "", projection_y |-> ""]

\* The record of a document without <projection>.
NoProjection ==
    [projection_x |-> "", projection_y |-> "", latitude |-> "", longitude |-> ""]

\* Mutant of parse_0_txt: a document without <projection> is rejected like a
\* malformed one.
parse_0_txt_ProjectionRequired(f, ok) ==
    IF ~f.wellformed \/ "projection" \notin DOMAIN f.doc
    THEN [ret |-> None, invoked |-> FALSE, raised |-> FALSE]
    ELSE LET projection_elem == f.doc["projection"]
             proj_x == Get(projection_elem, "x", "")
             proj_y == Get(projection_elem, "y", "")
             c == Convert(proj_x, proj_y, ok)
         IN  [ret |-> [projection_x |-> proj_x, projection_y |-> proj_y,
                       latitude |-> c.latitude, longitude |-> c.longitude],
              invoked |-> c.invoked, raised |-> c.raised]

\* Mutant of parse_0_txt: a transformer exception rejects the file.
parse_0_txt_TransformFatal(f, ok) ==
    IF ~f.wellformed
    THEN [ret |-> None, invoked |-> FALSE, raised |-> FALSE]
    ELSE IF "projection" \in DOMAIN f.doc
    THEN LET projection_elem == f.doc["projection"]
             proj_x == Get(projection_elem, "x", "")
             proj_y == Get(projection_elem, "y", "")
             c == Convert(proj_x, proj_y, ok)
         IN  [ret |-> IF c.raised
                      THEN None
                      ELSE [projection_x |-> proj_x, projection_y |-> proj_y,
                            latitude |-> c.latitude, longitude |-> c.longitude],
              invoked |-> c.invoked, raised |-> c.raised]
    ELSE [ret |-> NoProjection, invoked |-> FALSE, raised |-> FALSE]

\* ret is the value returned; invoked is whether the transformer was reached,
\* raised whether it raised.
parse_0_txt(f, ok) ==
    IF ~f.wellformed
    THEN [ret |-> None, invoked |-> FALSE, raised |-> FALSE]
    ELSE IF "projection" \in DOMAIN f.doc
    THEN LET projection_elem == f.doc["projection"]
             proj_x == Get(projection_elem, "x", "")
             proj_y == Get(projection_elem, "y", "")
             c == Convert(proj_x, proj_y, ok)
         IN  [ret |-> [projection_x |-> proj_x, projection_y |-> proj_y,
                       latitude |-> c.latitude, longitude |-> c.longitude],
              invoked |-> c.invoked, raised |-> c.raised]
    ELSE [ret |-> NoProjection, invoked |-> FALSE, raised |-> FALSE]

----------------------------------------------------------------------------
\* parse_8_txt

\* Mutant of elements: the third tuple reads the element named description.
elements_DescriptionElement ==
    << <<"name", "name", "htmlText">>,
       <<"translation", "translation", "htmlText">>,
       <<"description", "description", "htmlText">> >>

\* (element name, key name, attribute name)
elements ==
    << <<"name", "name", "htmlText">>,
       <<"translation", "translation", "htmlText">>,
       <<"explanation", "description", "htmlText">> >>

\* One pass of the for loop over elements.
ExtractElement(doc, t) ==
    IF t[1] \in DOMAIN doc THEN Get(doc[t[1]], t[3], "") ELSE ""

RECURSIVE ExtractFrom(_, _, _)
ExtractFrom(doc, i, record) ==
    IF i > Len(elements)
    THEN record
    ELSE ExtractFrom(doc, i + 1, (elements[i][2] :> ExtractElement(doc, elements[i])) @@ record)

parse_8_txt(f) ==
    IF ~f.wellformed THEN None ELSE ExtractFrom(f.doc, 1, <<>>)

----------------------------------------------------------------------------
\* process_directory, main, write_csv

\* Mutant of BothExist: only 0.txt is checked.
BothExist_Only0(d) == exists(d.f0)

\* The check of line 98.
BothExist(d) == exists(d.f0) /\ exists(d.f8)

\* {**record_0, **record_8}
Combine(a, b) ==
    [k \in DOMAIN a \cup DOMAIN b |-> IF k \in DOMAIN b THEN b[k] ELSE a[k]]

\* if record:
Truthy(record) == record # None /\ DOMAIN record # {}

csv_columns ==
    <<"projection_x", "projection_y", "latitude", "longitude",
      "name", "translation", "description">>

\* filtered_data, in the order of fieldnames.
Row(data) == [c \in 1..Len(csv_columns) |-> Get(data, csv_columns[c], "")]

\* Mutant of Rows: writer.writeheader() is left out.
Rows_NoHeader(list) == [k \in 1..Len(list) |-> Row(list[k])]

\* Everything write_csv writes when no write fails.
Rows(list) == <<csv_columns>> \o [k \in 1..Len(list) |-> Row(list[k])]

UsesDefault(list) ==
    \E k \in 1..Len(list) : \E c \in 1..Len(csv_columns) : csv_columns[c] \notin DOMAIN list[k]

Init ==
    /\ root \in Roots
    /\ idx = 1
    /\ pc = "loop"
    /\ record_0 = None
    /\ record_8 = None
    /\ data_list = <<>>
    /\ csv = <<>>
    /\ outcome = "none"
    /\ origin = <<>>
    /\ opened = {}
    /\ transformed = {}
    /\ raised = {}
    /\ defaulted = FALSE

\* The next iteration of the for loop of main.
NextEntry ==
    /\ idx' = idx + 1
    /\ pc' = "loop"
    /\ record_0' = None
    /\ record_8' = None

\* The listing is exhausted: main goes on to write_csv.
LoopEnd ==
    /\ pc = "loop"
    /\ idx > Len(root)
    /\ pc' = "write"
    /\ UNCHANGED <<root, idx, record_0, record_8, data_list, csv, outcome,
                   origin, opened, transformed, raised, defaulted>>

SkipNotDirectory ==
    /\ pc = "loop"
    /\ idx <= Len(root)
    /\ root[idx].kind # "dir"
    /\ NextEntry
    /\ UNCHANGED <<root, data_list, csv, outcome, origin, opened, transformed, raised, defaulted>>

SkipNoMenuTabs ==
    /\ pc = "loop"
    /\ idx <= Len(root)
    /\ root[idx].kind = "dir"
    /\ ~root[idx].menuTabs
    /\ NextEntry
    /\ UNCHANGED <<root, data_list, csv, outcome, origin, opened, transformed, raised, defaulted>>

\* main calls process_directory(menu_tab_path).
EnterDirectory ==
    /\ pc = "loop"
    /\ idx <= Len(root)
    /\ root[idx].kind = "dir"
    /\ root[idx].menuTabs
    /\ pc' = "exists"
    /\ UNCHANGED <<root, idx, record_0, record_8, data_list, csv, outcome,
                   origin, opened, transformed, raised, defaulted>>

\* process_directory returns None at line 100; main appends nothing.
SkipMissingFile ==
    /\ pc = "exists"
    /\ ~BothExist(root[idx])
    /\ NextEntry
    /\ UNCHANGED <<root, data_list, csv, outcome, origin, opened, transformed, raised, defaulted>>

FilesFound ==
    /\ pc = "exists"
    /\ BothExist(root[idx])
    /\ pc' = "parse0"
    /\ UNCHANGED <<root, idx, record_0, record_8, data_list, csv, outcome,
                   origin, opened, transformed, raised, defaulted>>

\* record_0 = parse_0_txt(file_0_txt)
Parse0 ==
    /\ pc = "parse0"
    /\ CanOpen(root[idx].f0)
    /\ \E ok \in BOOLEAN :
         LET r == parse_0_txt(root[idx].f0, ok)
         IN  /\ record_0' = r.ret
             /\ transformed' = IF r.invoked THEN transformed \cup {idx} ELSE transformed
             /\ raised' = IF r.raised THEN raised \cup {idx} ELSE raised
    /\ opened' = opened \cup {<<idx, "0.txt">>}
    /\ pc' = "parse8"
    /\ UNCHANGED <<root, idx, record_8, data_list, csv, outcome, origin, defaulted>>

\* open() raises in parse_0_txt; nothing catches it.
Parse0Raises ==
    /\ pc = "parse0"
    /\ ~CanOpen(root[idx].f0)
    /\ opened' = opened \cup {<<idx, "0.txt">>}
    /\ pc' = "crashed"
    /\ UNCHANGED <<root, idx, record_0, record_8, data_list, csv, outcome,
                   origin, transformed, raised, defaulted>>

\* record_8 = parse_8_txt(file_8_txt)
Parse8 ==
    /\ pc = "parse8"
    /\ CanOpen(root[idx].f8)
    /\ record_8' = parse_8_txt(root[idx].f8)
    /\ opened' = opened \cup {<<idx, "8.txt">>}
    /\ pc' = "combine"
    /\ UNCHANGED <<root, idx, record_0, data_list, csv, outcome, origin,
                   transformed, raised, defaulted>>

\* open() raises in parse_8_txt; nothing catches it.
Parse8Raises ==
    /\ pc = "parse8"
    /\ ~CanOpen(root[idx].f8)
    /\ opened' = opened \cup {<<idx, "8.txt">>}
    /\ pc' = "crashed"
    /\ UNCHANGED <<root, idx, record_0, record_8, data_list, csv, outcome,
                   origin, transformed, raised, defaulted>>

\* process_directory returns None at line 108; main appends nothing.
SkipParseError ==
    /\ pc = "combine"
    /\ (record_0 = None \/ record_8 = None)
    /\ NextEntry
    /\ UNCHANGED <<root, data_list, csv, outcome, origin, opened, transformed, raised, defaulted>>

\* process_directory returns the combined record; main appends it when truthy.
AppendRecord ==
    /\ pc = "combine"
    /\ record_0 # None
    /\ record_8 # None
    /\ LET record == Combine(record_0, record_8)
       IN  IF Truthy(record)
           THEN /\ data_list' = Append(data_list, record)
                /\ origin' = Append(origin, idx)
           ELSE UNCHANGED <<data_list, origin>>
    /\ NextEntry
    /\ UNCHANGED <<root, csv, outcome, opened, transformed, raised, defaulted>>

\* write_csv runs through.
WriteCsv ==
    /\ pc = "write"
    /\ csv' = Rows(data_list)
    /\ defaulted' = UsesDefault(data_list)
    /\ outcome' = "written"
    /\ pc' = "done"
    /\ UNCHANGED <<root, idx, record_0, record_8, data_list, origin, opened, transformed, raised>>

\* open or a write raises IOError after n rows; write_csv reports it.
WriteCsvIOError ==
    /\ pc = "write"
    /\ \E n \in 0..Len(data_list) :
         /\ csv' = SubSeq(Rows(data_list), 1, n)
         /\ defaulted' = UsesDefault(SubSeq(data_list, 1, n - 1))
    /\ outcome' = "ioerror"
    /\ pc' = "done"
    /\ UNCHANGED <<root, idx, record_0, record_8, data_list, origin, opened, transformed, raised>>

Next ==
    \/ LoopEnd
    \/ SkipNotDirectory
    \/ SkipNoMenuTabs
    \/ EnterDirectory
    \/ SkipMissingFile
    \/ FilesFound
    \/ Parse0
    \/ Parse0Raises
    \/ Parse8
    \/ Parse8Raises
    \/ SkipParseError
    \/ AppendRecord
    \/ WriteCsv
    \/ WriteCsvIOError

Spec == Init /\ [][Next]_vars

----------------------------------------------------------------------------
\* Vocabulary of the properties

IsMenuDir(e) == e.kind = "dir" /\ e.menuTabs
Missing(f) == f.kind = "missing"
NotRegular(f) == f.kind = "dir"
Malformed(f) == f.kind = "file" /\ ~f.wellformed
WellFormed(f) == f.kind = "file" /\ f.wellformed

\* The loop iteration of listing entry i is over.
Handled(i) == i < idx

\* The positions of data_list that came from listing entry i.
RowsFrom(i) == {k \in 1..Len(origin) : origin[k] = i}

\* The value of attribute at of child el of a document, "" when either is absent.
Attr(doc, el, at) ==
    IF el \in DOMAIN doc /\ at \in DOMAIN doc[el] THEN doc[el][at] ELSE ""

HasAttr(doc, el, at) == el \in DOMAIN doc /\ at \in DOMAIN doc[el]

Columns ==
    {"projection_x", "projection_y", "latitude", "longitude",
     "name", "translation", "description"}

FileNames == {"0.txt", "8.txt"}

\* process_directory is past its existence check for the current entry.
InParsers == pc \in {"parse0", "parse8", "combine"}

\* The directory the program is in or crashed in is entry i, past the existence check.
Entered(i) == idx = i /\ (InParsers \/ pc = "crashed")

----------------------------------------------------------------------------
\* C1: a menuTabs directory lacking 0.txt or 8.txt never contributes a record
\* to data_list nor a row to the CSV, and process_directory returns for it
\* before either file is opened or parsed.
C1_MissingFileContributesNothing ==
    /\ Len(data_list) = Len(origin)
    /\ outcome = "written" => Len(csv) = 1 + Len(origin)
    /\ \A i \in 1..Len(root) :
         (IsMenuDir(root[i]) /\ (Missing(root[i].f0) \/ Missing(root[i].f8))) =>
            /\ RowsFrom(i) = {}
            /\ \A n \in FileNames : <<i, n>> \notin opened
            /\ ~Entered(i)

\* A listing of a valid directory and one missing 8.txt, written: two lines.
C1_Witness ==
    /\ pc = "done"
    /\ outcome = "written"
    /\ Len(root) = 2
    /\ Len(csv) = 2
    /\ \E i \in 1..Len(root) :
         IsMenuDir(root[i]) /\ Missing(root[i].f8) /\ WellFormed(root[i].f0)

\* C2: no error is fatal: the run never ends with an uncaught exception.
C2_NoUncaughtException == pc # "crashed"

\* C3 (original): a descriptor whose root has children name, translation and
\* description with htmlText N, T and D gives name = N, translation = T and
\* description = D.
C3_DescriptionFromDescriptionElement ==
    (/\ pc = "combine"
     /\ WellFormed(root[idx].f8)
     /\ \A el \in {"name", "translation", "description"} :
            HasAttr(root[idx].f8.doc, el, "htmlText"))
    => record_8 = [name |-> root[idx].f8.doc["name"]["htmlText"],
                   translation |-> root[idx].f8.doc["translation"]["htmlText"],
                   description |-> root[idx].f8.doc["description"]["htmlText"]]

\* C3 (amended): a descriptor whose root has children name, translation and
\* explanation with htmlText N, T and D gives name = N, translation = T and
\* description = D: the key description is read from the element explanation.
C3_DescriptionFromExplanationElement ==
    (/\ pc = "combine"
     /\ WellFormed(root[idx].f8)
     /\ \A el \in {"name", "translation", "explanation"} :
            HasAttr(root[idx].f8.doc, el, "htmlText"))
    => record_8 = [name |-> root[idx].f8.doc["name"]["htmlText"],
                   translation |-> root[idx].f8.doc["translation"]["htmlText"],
                   description |-> root[idx].f8.doc["explanation"]["htmlText"]]

\* parse_8_txt has returned for a descriptor with all four children, whose
\* explanation and description differ.
C3_Witness ==
    /\ pc = "combine"
    /\ WellFormed(root[idx].f8)
    /\ \A el \in {"name", "translation", "explanation", "description"} :
           HasAttr(root[idx].f8.doc, el, "htmlText")
    /\ root[idx].f8.doc["explanation"]["htmlText"] # root[idx].f8.doc["description"]["htmlText"]
    /\ root[idx].f8.doc["name"]["htmlText"] # root[idx].f8.doc["translation"]["htmlText"]
    /\ record_8 # None

\* C4: a directory with a descriptor whose content does not parse gets None
\* from that parser and from process_directory, contributes no row, and the
\* walk goes on past it.
C4_MalformedRejectedWalkContinues ==
    \A i \in 1..Len(root) :
        (IsMenuDir(root[i]) /\ (Malformed(root[i].f0) \/ Malformed(root[i].f8))) =>
            /\ RowsFrom(i) = {}
            /\ ~(pc = "crashed" /\ idx = i)
            /\ (idx = i /\ pc \in {"parse8", "combine"} /\ Malformed(root[i].f0))
                   => record_0 = None
            /\ (idx = i /\ pc = "combine" /\ Malformed(root[i].f8)) => record_8 = None

\* C5: a directory whose files both parse and whose spatial descriptor has no
\* projection element is accepted with exactly one row: the four spatial
\* fields empty, the metadata fields as extracted from 8.txt.
C5_NoProjectionAccepted ==
    \A i \in 1..Len(root) :
        (/\ Handled(i)
         /\ IsMenuDir(root[i])
         /\ WellFormed(root[i].f0)
         /\ WellFormed(root[i].f8)
         /\ "projection" \notin DOMAIN root[i].f0.doc)
        => /\ Cardinality(RowsFrom(i)) = 1
           /\ \A k \in RowsFrom(i) :
                /\ k <= Len(data_list)
                /\ data_list[k] =
                     [projection_x |-> "", projection_y |-> "",
                      latitude |-> "", longitude |-> "",
                      name |-> Attr(root[i].f8.doc, "name", "htmlText"),
                      translation |-> Attr(root[i].f8.doc, "translation", "htmlText"),
                      description |-> Attr(root[i].f8.doc, "explanation", "htmlText")]
                /\ outcome = "written" =>
                     /\ k + 1 <= Len(csv)
                     /\ csv[k + 1] =
                          <<"", "", "", "",
                            Attr(root[i].f8.doc, "name", "htmlText"),
                            Attr(root[i].f8.doc, "translation", "htmlText"),
                            Attr(root[i].f8.doc, "explanation", "htmlText")>>

\* Such a directory, with a name in its metadata, has been written.
C5_Witness ==
    /\ outcome = "written"
    /\ \E i \in 1..Len(root) :
         /\ IsMenuDir(root[i])
         /\ WellFormed(root[i].f0)
         /\ WellFormed(root[i].f8)
         /\ "projection" \notin DOMAIN root[i].f0.doc
         /\ Attr(root[i].f8.doc, "name", "htmlText") # ""
         /\ RowsFrom(i) # {}

\* The raw strings parse_0_txt reads from <projection> of a document.
RawX(doc) == Attr(doc, "projection", "x")
RawY(doc) == Attr(doc, "projection", "y")

\* C6: with <projection> present and x or y not parseable as a float (an
\* absent attribute reads as ""), the record has latitude = longitude = "",
\* keeps the raw strings as projection_x and projection_y, the transformer is
\* not invoked, and the record is not rejected.
C6_NonNumericDegrades ==
    /\ (/\ pc \in {"parse8", "combine"}
        /\ WellFormed(root[idx].f0)
        /\ "projection" \in DOMAIN root[idx].f0.doc
        /\ ~(IsFloat(RawX(root[idx].f0.doc)) /\ IsFloat(RawY(root[idx].f0.doc))))
       => /\ record_0 = [projection_x |-> RawX(root[idx].f0.doc),
                         projection_y |-> RawY(root[idx].f0.doc),
                         latitude |-> "", longitude |-> ""]
          /\ idx \notin transformed
    /\ \A i \in 1..Len(root) :
         (/\ Handled(i)
          /\ IsMenuDir(root[i])
          /\ WellFormed(root[i].f0)
          /\ WellFormed(root[i].f8)
          /\ "projection" \in DOMAIN root[i].f0.doc
          /\ ~(IsFloat(RawX(root[i].f0.doc)) /\ IsFloat(RawY(root[i].f0.doc))))
         => /\ i \notin transformed
            /\ Cardinality(RowsFrom(i)) = 1

\* parse_0_txt has returned for x = "abc" with y absent.
C6_Witness ==
    /\ pc = "parse8"
    /\ WellFormed(root[idx].f0)
    /\ "projection" \in DOMAIN root[idx].f0.doc
    /\ DOMAIN root[idx].f0.doc["projection"] = {"x"}
    /\ root[idx].f0.doc["projection"]["x"] = "abc"
    /\ record_0 # None

\* C7: on a successful write output.csv is the header of the seven columns
\* followed by one row per accepted directory, none dropped or duplicated, in
\* enumeration order, each row holding its record's values by column.
C7_CsvIsHeaderPlusAcceptedRows ==
    outcome = "written" =>
        /\ Len(origin) = Len(data_list)
        /\ Len(csv) = 1 + Len(data_list)
        /\ csv[1] = <<"projection_x", "projection_y", "latitude", "longitude",
                      "name", "translation", "description">>
        /\ \A i \in 1..Len(root) :
             Cardinality(RowsFrom(i)) =
                IF IsMenuDir(root[i]) /\ WellFormed(root[i].f0) /\ WellFormed(root[i].f8)
                THEN 1 ELSE 0
        /\ \A j, k \in 1..Len(origin) : j < k => origin[j] < origin[k]
        /\ \A k \in 1..Len(data_list) :
             /\ DOMAIN data_list[k] = Columns
             /\ csv[k + 1] = <<data_list[k]["projection_x"], data_list[k]["projection_y"],
                               data_list[k]["latitude"], data_list[k]["longitude"],
                               data_list[k]["name"], data_list[k]["translation"],
                               data_list[k]["description"]>>
             /\ LET e == root[origin[k]]
                IN  /\ csv[k + 1][1] = RawX(e.f0.doc)
                    /\ csv[k + 1][2] = RawY(e.f0.doc)
                    /\ <<csv[k + 1][4], csv[k + 1][3]>> \in
                         {<<"", "">>} \cup
                         (IF IsFloat(RawX(e.f0.doc)) /\ IsFloat(RawY(e.f0.doc))
                          THEN {Transform(FloatValue[RawX(e.f0.doc)], FloatValue[RawY(e.f0.doc)])}
                          ELSE {})
                    /\ csv[k + 1][5] = Attr(e.f8.doc, "name", "htmlText")
                    /\ csv[k + 1][6] = Attr(e.f8.doc, "translation", "htmlText")
                    /\ csv[k + 1][7] = Attr(e.f8.doc, "explanation", "htmlText")

\* A valid directory followed by one missing 8.txt: header and one row, with
\* the transformed coordinates.
C7_Witness ==
    /\ outcome = "written"
    /\ Len(root) = 2
    /\ IsMenuDir(root[1]) /\ WellFormed(root[1].f0) /\ WellFormed(root[1].f8)
    /\ IsMenuDir(root[2]) /\ WellFormed(root[2].f0) /\ Missing(root[2].f8)
    /\ Len(csv) = 2
    /\ csv[2][3] # ""

\* C8: when x and y parse as floats and the transformer raises, parse_0_txt
\* catches it: latitude = longitude = "", projection_x and projection_y keep
\* the raw strings, and the directory is not rejected because of it.
C8_TransformFailureDegrades ==
    /\ raised \subseteq transformed
    /\ (pc \in {"parse8", "combine"} /\ idx \in raised)
       => /\ IsFloat(RawX(root[idx].f0.doc))
          /\ IsFloat(RawY(root[idx].f0.doc))
          /\ record_0 = [projection_x |-> RawX(root[idx].f0.doc),
                         projection_y |-> RawY(root[idx].f0.doc),
                         latitude |-> "", longitude |-> ""]
    /\ \A i \in raised :
         (Handled(i) /\ WellFormed(root[i].f8))
         => /\ Cardinality(RowsFrom(i)) = 1
            /\ \A k \in RowsFrom(i) :
                 /\ k <= Len(data_list)
                 /\ DOMAIN data_list[k] = Columns
                 /\ data_list[k]["projection_x"] = RawX(root[i].f0.doc)
                 /\ data_list[k]["projection_y"] = RawY(root[i].f0.doc)
                 /\ data_list[k]["latitude"] = ""
                 /\ data_list[k]["longitude"] = ""

\* The transformer raised for x = "1e2", and the directory was accepted.
C8_Witness ==
    /\ pc = "loop"
    /\ \E i \in raised :
         /\ Handled(i)
         /\ RawX(root[i].f0.doc) = "1e2"
         /\ RowsFrom(i) # {}

\* C9: a descriptor name that exists but is not a regular file is treated as
\* missing: process_directory returns no record without opening or parsing
\* either file.
C9_NonRegularTreatedAsMissing ==
    \A i \in 1..Len(root) :
        (IsMenuDir(root[i]) /\ (NotRegular(root[i].f0) \/ NotRegular(root[i].f8))) =>
            /\ \A n \in FileNames : <<i, n>> \notin opened
            /\ ~Entered(i)

\* C10: every record process_directory returns and every element of
\* data_list has all seven keys, so write_csv never takes the default of
\* data.get(key, '').
C10_AllSevenKeys ==
    /\ \A k \in 1..Len(data_list) : DOMAIN data_list[k] = Columns
    /\ (pc \in {"parse8", "combine"} /\ record_0 # None)
       => DOMAIN record_0 = {"projection_x", "projection_y", "latitude", "longitude"}
    /\ (pc = "combine" /\ record_8 # None)
       => DOMAIN record_8 = {"name", "translation", "description"}
    /\ (pc = "combine" /\ record_0 # None /\ record_8 # None)
       => DOMAIN Combine(record_0, record_8) = Columns
    /\ ~defaulted

\* A directory with neither <projection> nor <name> has been exported.
C10_Witness ==
    /\ outcome = "written"
    /\ Len(data_list) = 1
    /\ root[origin[1]].f0.doc = <<>>
    /\ "name" \notin DOMAIN root[origin[1]].f8.doc
    /\ "explanation" \in DOMAIN root[origin[1]].f8.doc

====
